---- MODULE Spec2Model ----
(***************************************************************************)
(* A model of CursorManager (src/src/cursor_manager.ts) of vscode-neovim:  *)
(* the redraw-batch handler that stages per-window cursor updates and      *)
(* applies them behind the document-change lock, and the selection-change  *)
(* handler that sends cursor commands to neovim.                           *)
(***************************************************************************)
EXTENDS Integers, Sequences, FiniteSets, TLC

(***************************************************************************)
(* Bounds of the model.                                                    *)
(***************************************************************************)
\* queueUpdate() tasks spawned in one behaviour
MaxTasks == 3
\* events in one redraw batch
MaxBatchLen == 2

(***************************************************************************)
(* The world around the manager: documents, editors, windows.              *)
(***************************************************************************)
Docs == {"dA", "dB"}
Editors == {"e1", "e2", "e3"}
NoEditor == "none"
\* editor.document: e1 and e3 show the same document
DocOf(e) == IF e = "e2" THEN "dB" ELSE "dA"
Wins == {1, 2, 3, 4}
\* the stalled document of the liveness scenario and the unrelated one
StalledDoc == "dA"
FreeDoc == "dB"

Pos(l, c) == [line |-> l, character |-> c]
Collapsed(p) == [anchor |-> p, active |-> p]

ModeNames == {"normal", "insert"}
Shapes == {"block", "horizontal", "vertical"}
NoShape == "undefined"

VARIABLES
    cursorModes,    \* this.cursorModes: mode name -> cursor shape, NoShape when absent
    cursorStyle,    \* editor.options.cursorStyle of every editor
    visibleEditors, \* window.visibleTextEditors
    winEditor,      \* bufferManager: window id -> editor, NoEditor when unbound
    lockHeld,       \* changeManager: document -> a text change is pending
    waiters,        \* document -> queueUpdate() tasks suspended on its lock, oldest first
    selections,     \* editor.selections
    visibleRange,   \* editor.visibleRanges[0]
    lastReveal,     \* the reveal type of the last editor.revealRange call, per editor
    warned,         \* window ids of the logger.warn calls of the last batch
    nextId,         \* the gating number the next queueUpdate() task gets
    lastBatch,      \* history: the last batch and the state it was handled in
    spawned,        \* history: the tasks the last batch spawned, in spawning order
    wroteLocked,    \* history: a task wrote a cursor while its document's lock was held
    lastApplied,    \* history: document -> the task applied last (gating number,
                    \* and whether the lock was held when it was gated)
    lastGated,      \* history: editor -> the position of the task gated last for it
    mode,           \* modeManager: the engine's mode (isInsertMode, isVisualMode)
    layoutPending,  \* bufferManager: a layout change has not settled yet
    activeEditor,   \* window.activeTextEditor
    winGrid,        \* bufferManager: window id -> grid id, NoGrid when unknown
    mouseSelectionEnabled, \* settings.mouseSelectionEnabled
    handlers,       \* the onSelectionChanged invocations suspended on an await
    nextNotif,      \* the number the next selection-change notification gets
    lastCall,       \* the client.callAtomic of the step just taken: its requests
                    \* and its invocation, NoCall when the step made no call
    insertNotifs,   \* history: the notifications raised while in insert mode
    lastDone,       \* history: the invocation that returned in the step just
                    \* taken, what it saw when it returned and what it sent
    subscribed,     \* this.disposables: the subscription to the selection changes
                    \* has not been disposed of
    pendingEcho,    \* the GUI: the editors whose selection an applied update has
                    \* replaced and whose notification is still to come
    lastApply,      \* history: the application of a position in the step just
                    \* taken, what it found and what it asked for
    callOrder,      \* history: the notifications of the atomic calls, in call order
    passedLayout,   \* history: the notifications whose invocation has resumed
                    \* from the layout synchronisation
    gatedBound      \* history: task -> the editor its window was bound to when
                    \* the batch of the task was handled

\* the state the selection handler reads and writes
selState == <<mode, layoutPending, activeEditor, winGrid, mouseSelectionEnabled,
              handlers, nextNotif, subscribed>>
redrawHist == <<lastBatch, wroteLocked, lastApplied, lastGated>>

vars == <<cursorModes, cursorStyle, visibleEditors, winEditor, lockHeld, waiters,
          selections, visibleRange, lastReveal, warned, nextId,
          lastBatch, spawned, wroteLocked, lastApplied, lastGated,
          selState, lastCall, insertNotifs, lastDone,
          pendingEcho, lastApply, callOrder, passedLayout, gatedBound>>

NoPos == [line |-> -1, character |-> -1]
NoApply == [editor |-> NoEditor]
NoBatch == [batch |-> <<>>]

(***************************************************************************)
(* handleRedrawBatch, first loop: the scan of the batch.                   *)
(***************************************************************************)
\* Map.set on the insertion-ordered winCursorsUpdates: an existing key keeps
\* its place and gets the new value, a new key goes last
\* the mutant of MapSet that keeps the first value staged for a key
RECURSIVE MapSetFirstWins(_, _, _)
MapSetFirstWins(m, k, v) ==
    IF m = <<>> THEN <<[win |-> k, pos |-> v]>>
    ELSE IF Head(m).win = k THEN m
    ELSE <<Head(m)>> \o MapSetFirstWins(Tail(m), k, v)

RECURSIVE MapSet(_, _, _)
MapSet(m, k, v) ==
    IF m = <<>> THEN <<[win |-> k, pos |-> v]>>
    ELSE IF Head(m).win = k THEN <<[win |-> k, pos |-> v]>> \o Tail(m)
    ELSE <<Head(m)>> \o MapSet(Tail(m), k, v)

\* case "win_viewport": every argument tuple of the event is staged
RECURSIVE StageViewport(_, _)
StageViewport(staged, args) ==
    IF args = <<>> THEN staged
    ELSE StageViewport(
            MapSet(staged, Head(args).win,
                   [line |-> Head(args).curline, col |-> Head(args).curcol]),
            Tail(args))

\* case "mode_info_set": entries without a name or a shape are skipped
RECURSIVE SetModes(_, _)
SetModes(modes, infos) ==
    IF infos = <<>> THEN modes
    ELSE IF Head(infos).name = "" \/ Head(infos).cursor_shape = ""
         THEN SetModes(modes, Tail(infos))
         ELSE SetModes([modes EXCEPT ![Head(infos).name] = Head(infos).cursor_shape],
                       Tail(infos))

StyleOfShape(shape) ==
    IF shape = "block" THEN "Block"
    ELSE IF shape = "horizontal" THEN "Underline"
    ELSE "Line"

\* updateCursorStyle(modeName), on the map and the styles as they stand
updateCursorStyle(modes, style, modeName) ==
    IF modeName \notin DOMAIN modes \/ modes[modeName] = NoShape
    THEN style
    ELSE [e \in Editors |->
            IF e \in visibleEditors THEN StyleOfShape(modes[modeName]) ELSE style[e]]

\* the mutant of ScanEvent whose mode_change reads the map as it stood before
\* the batch
ScanEventStale(st, ev) ==
    CASE ev.name = "win_viewport" ->
            [st EXCEPT !.staged = StageViewport(st.staged, ev.args)]
      [] ev.name = "mode_info_set" ->
            [st EXCEPT !.modes = SetModes(st.modes, ev.args[1].modes)]
      [] ev.name = "mode_change" ->
            [st EXCEPT !.style = updateCursorStyle(cursorModes, st.style, ev.args[1].mode)]
      [] OTHER -> st

\* one iteration of the switch over the event's name
ScanEvent(st, ev) ==
    CASE ev.name = "win_viewport" ->
            [st EXCEPT !.staged = StageViewport(st.staged, ev.args)]
      [] ev.name = "mode_info_set" ->
            \* firstArg = args[0]; [, modes] = firstArg
            [st EXCEPT !.modes = SetModes(st.modes, ev.args[1].modes)]
      [] ev.name = "mode_change" ->
            \* [newModeName] = firstArg
            [st EXCEPT !.style = updateCursorStyle(st.modes, st.style, ev.args[1].mode)]
      [] OTHER -> st

RECURSIVE ScanBatch(_, _)
ScanBatch(st, batch) ==
    IF batch = <<>> THEN st
    ELSE ScanBatch(ScanEvent(st, Head(batch)), Tail(batch))

(***************************************************************************)
(* handleRedrawBatch, second loop: one queueUpdate() task per staged       *)
(* window with an editor.                                                  *)
(***************************************************************************)
\* changeManager.getDocumentChangeCompletionLock(document), awaited: the
\* wait is over when no text change of the document is pending
LockFree(d) == ~lockHeld[d]

\* the mutant of QueueUpdates that leaves the loop at the first unbound window
RECURSIVE QueueUpdatesAbort(_, _)
QueueUpdatesAbort(acc, staged) ==
    IF staged = <<>> THEN acc
    ELSE LET winId == Head(staged).win
             cursorPos == Head(staged).pos
             editor == winEditor[winId]
         IN IF editor = NoEditor
            THEN [acc EXCEPT !.warned = Append(@, winId)]
            ELSE LET task == [id |-> acc.nextId, win |-> winId, editor |-> editor,
                              line |-> cursorPos.line, col |-> cursorPos.col,
                              gatedLocked |-> lockHeld[DocOf(editor)]]
                 IN QueueUpdatesAbort(
                        [acc EXCEPT !.tasks = Append(@, task), !.nextId = @ + 1],
                        Tail(staged))

\* the loop over winCursorsUpdates; an unbound window warns and continues
RECURSIVE QueueUpdates(_, _)
QueueUpdates(acc, staged) ==
    IF staged = <<>> THEN acc
    ELSE LET winId == Head(staged).win
             cursorPos == Head(staged).pos
             editor == winEditor[winId]
         IN IF editor = NoEditor
            THEN QueueUpdates([acc EXCEPT !.warned = Append(@, winId)], Tail(staged))
            ELSE LET task == [id |-> acc.nextId, win |-> winId, editor |-> editor,
                              line |-> cursorPos.line, col |-> cursorPos.col,
                              gatedLocked |-> lockHeld[DocOf(editor)]]
                 IN QueueUpdates(
                        [acc EXCEPT !.tasks = Append(@, task), !.nextId = @ + 1],
                        Tail(staged))

\* bufferManager.waitForLayoutSync(), awaited: the wait is over when no layout
\* change is pending
LayoutSynced == ~layoutPending

\* a suspended onSelectionChanged invocation whose await has settled
Runnable(h) ==
    IF h.pc = "layout" THEN LayoutSynced ELSE LockFree(DocOf(h.editor))

\* run to completion: the continuation of a settled await runs before the next
\* event is dispatched, so an event is handled only when no task and no
\* handler can resume
Idle ==
    /\ \A d \in Docs : waiters[d] = <<>> \/ ~LockFree(d)
    /\ \A h \in handlers : ~Runnable(h)

\* the mutant of Enqueue that starts the tasks of a batch in reverse order
RECURSIVE EnqueueReversed(_, _)
EnqueueReversed(q, tasks) ==
    IF tasks = <<>> THEN q
    ELSE LET last == tasks[Len(tasks)]
         IN EnqueueReversed([q EXCEPT ![DocOf(last.editor)] = Append(@, last)],
                            SubSeq(tasks, 1, Len(tasks) - 1))

\* queueUpdate() is called in the order of the staged map: each task starts
\* waiting on the lock of its editor's document
RECURSIVE Enqueue(_, _)
Enqueue(q, tasks) ==
    IF tasks = <<>> THEN q
    ELSE Enqueue([q EXCEPT ![DocOf(Head(tasks).editor)] = Append(@, Head(tasks))],
                 Tail(tasks))

HandleRedrawBatch(batch) ==
    /\ Idle
    /\ LET st == ScanBatch([staged |-> <<>>, modes |-> cursorModes,
                            style |-> cursorStyle], batch)
           q == QueueUpdates([tasks |-> <<>>, warned |-> <<>>, nextId |-> nextId],
                             st.staged)
       IN /\ q.nextId <= MaxTasks + 1
          /\ cursorModes' = st.modes
          /\ cursorStyle' = st.style
          /\ waiters' = Enqueue(waiters, q.tasks)
          /\ warned' = q.warned
          /\ nextId' = q.nextId
          /\ spawned' = q.tasks
    /\ UNCHANGED <<visibleEditors, winEditor, lockHeld, selections, visibleRange,
                   lastReveal, selState>>

(***************************************************************************)
(* updateCursorPosInEditor                                                 *)
(***************************************************************************)
PosLE(p, q) == p.line < q.line \/ (p.line = q.line /\ p.character <= q.character)
\* Range.contains(range)
Contains(range, sel) ==
    /\ PosLE(range.start, sel.anchor) /\ PosLE(sel.anchor, range.end)
    /\ PosLE(range.start, sel.active) /\ PosLE(sel.active, range.end)

\* the mutant of RevealTypeOf whose half-height tests are strict
RevealTypeOfStrict(visible, revealCursor) ==
    LET visibleLines == visible.end.line - visible.start.line
    IN IF Contains(visible, revealCursor) THEN "Default"
       ELSE IF revealCursor.active.line < visible.start.line
            THEN IF 2 * (visible.start.line - revealCursor.active.line) > visibleLines
                 THEN "Default" ELSE "AtTop"
       ELSE IF revealCursor.active.line > visible.end.line
            THEN IF 2 * (revealCursor.active.line - visible.end.line) > visibleLines
                 THEN "InCenter" ELSE "Default"
       ELSE "none"

\* the type of the revealRange call, "none" when no branch calls it
RevealTypeOf(visible, revealCursor) ==
    LET visibleLines == visible.end.line - visible.start.line
    IN IF Contains(visible, revealCursor) THEN "Default"
       ELSE IF revealCursor.active.line < visible.start.line
            THEN IF 2 * (visible.start.line - revealCursor.active.line) >= visibleLines
                 THEN "Default" ELSE "AtTop"
       ELSE IF revealCursor.active.line > visible.end.line
            THEN IF 2 * (revealCursor.active.line - visible.end.line) >= visibleLines
                 THEN "InCenter" ELSE "Default"
       ELSE "none"

\* what editor.revealRange does to the visible range: a line already shown is
\* left where it is, otherwise the window of the same height is moved
RevealRange(visible, line, type) ==
    LET h == visible.end.line - visible.start.line
        at(top) == [start |-> [visible.start EXCEPT !.line = top],
                    end |-> [visible.end EXCEPT !.line = top + h]]
        Max(a, b) == IF a > b THEN a ELSE b
    IN IF type = "none" \/ (visible.start.line <= line /\ line <= visible.end.line)
       THEN visible
       ELSE IF type = "AtTop" THEN at(line)
       ELSE IF type = "InCenter" THEN at(Max(0, line - (h \div 2)))
       ELSE IF line < visible.start.line THEN at(line)
       ELSE at(Max(0, line - h))

\* the mutant of updateCursorPosInEditor that chooses the reveal from the
\* selection the editor has before the assignment
updateCursorPosInEditorStale(editor, newLine, newCol) ==
    LET visible == visibleRange[editor]
        revealCursor == Collapsed(Pos(newLine, newCol))
        type == RevealTypeOf(visible, selections[editor][1])
    IN /\ selections' = [selections EXCEPT ![editor] = <<revealCursor>>]
       /\ lastReveal' = [lastReveal EXCEPT ![editor] = type]
       /\ UNCHANGED visibleRange

\* the mutant of updateCursorPosInEditor that replaces the primary selection
\* only
updateCursorPosInEditorPrimary(editor, newLine, newCol) ==
    LET visible == visibleRange[editor]
        revealCursor == Collapsed(Pos(newLine, newCol))
        type == RevealTypeOf(visible, revealCursor)
    IN /\ selections' = [selections EXCEPT
                            ![editor] = <<revealCursor>> \o Tail(selections[editor])]
       /\ lastReveal' = [lastReveal EXCEPT ![editor] = type]
       /\ UNCHANGED visibleRange

updateCursorPosInEditor(editor, newLine, newCol) ==
    LET visible == visibleRange[editor]
        revealCursor == Collapsed(Pos(newLine, newCol))
        type == RevealTypeOf(visible, revealCursor)
    IN /\ selections' = [selections EXCEPT ![editor] = <<revealCursor>>]
       \* editor.revealRange is a request: editor.visibleRanges changes when
       \* the editor has scrolled, not in this call
       /\ lastReveal' = [lastReveal EXCEPT ![editor] = type]
       /\ UNCHANGED visibleRange

(***************************************************************************)
(* The continuation of queueUpdate() after its await.                      *)
(***************************************************************************)
\* the mutant of ResumeTask that does not wait for the lock
ResumeTaskNoAwait(d) ==
    /\ waiters[d] /= <<>>
    /\ LET t == Head(waiters[d])
       IN updateCursorPosInEditor(t.editor, t.line, t.col)
    /\ waiters' = [waiters EXCEPT ![d] = Tail(@)]
    /\ UNCHANGED <<cursorModes, cursorStyle, visibleEditors, winEditor, lockHeld,
                   warned, nextId, spawned, selState>>

\* the mutant of ResumeTask that wakes the youngest waiter first
ResumeTaskLifo(d) ==
    /\ waiters[d] /= <<>>
    /\ LockFree(d)
    /\ LET t == waiters[d][Len(waiters[d])]
       IN updateCursorPosInEditor(t.editor, t.line, t.col)
    /\ waiters' = [waiters EXCEPT ![d] = SubSeq(@, 1, Len(@) - 1)]
    /\ UNCHANGED <<cursorModes, cursorStyle, visibleEditors, winEditor, lockHeld,
                   warned, nextId, spawned, selState>>

\* the mutant of ResumeTask in which the tasks are awaited one after the other:
\* a task resumes only when no older task of any document is still suspended
ResumeTaskSerial(d) ==
    /\ waiters[d] /= <<>>
    /\ LockFree(d)
    /\ \A d2 \in Docs :
          IF waiters[d2] = <<>> THEN TRUE
          ELSE Head(waiters[d2]).id >= Head(waiters[d]).id
    /\ LET t == Head(waiters[d])
       IN updateCursorPosInEditor(t.editor, t.line, t.col)
    /\ waiters' = [waiters EXCEPT ![d] = Tail(@)]
    /\ UNCHANGED <<cursorModes, cursorStyle, visibleEditors, winEditor, lockHeld,
                   warned, nextId, spawned, selState>>

\* the mutant of ResumeTask that looks up the editor of the window when it
\* resumes, and writes nothing when the window has none
ResumeTaskBoundNow(d) ==
    /\ waiters[d] /= <<>>
    /\ LockFree(d)
    /\ LET t == Head(waiters[d])
       IN IF winEditor[t.win] = NoEditor
          THEN UNCHANGED <<selections, lastReveal, visibleRange>>
          ELSE updateCursorPosInEditor(winEditor[t.win], t.line, t.col)
    /\ waiters' = [waiters EXCEPT ![d] = Tail(@)]
    /\ UNCHANGED <<cursorModes, cursorStyle, visibleEditors, winEditor, lockHeld,
                   warned, nextId, spawned, selState>>

\* the oldest task suspended on document d resumes once the lock is free and
\* writes its staged position to its editor
ResumeTask(d) ==
    /\ waiters[d] /= <<>>
    /\ LockFree(d)
    /\ LET t == Head(waiters[d])
       IN updateCursorPosInEditor(t.editor, t.line, t.col)
    /\ waiters' = [waiters EXCEPT ![d] = Tail(@)]
    /\ UNCHANGED <<cursorModes, cursorStyle, visibleEditors, winEditor, lockHeld,
                   warned, nextId, spawned, selState>>

(***************************************************************************)
(* The document-change collaborator: a text change of a document begins    *)
(* and, later, is flushed.                                                 *)
(***************************************************************************)
BeginMutation(d) ==
    /\ Idle
    /\ ~lockHeld[d]
    /\ lockHeld' = [lockHeld EXCEPT ![d] = TRUE]
    /\ UNCHANGED <<cursorModes, cursorStyle, visibleEditors, winEditor, waiters,
                   selections, visibleRange, lastReveal, warned, nextId, spawned,
                   selState>>

EndMutation(d) ==
    /\ Idle
    /\ lockHeld[d]
    /\ lockHeld' = [lockHeld EXCEPT ![d] = FALSE]
    /\ UNCHANGED <<cursorModes, cursorStyle, visibleEditors, winEditor, waiters,
                   selections, visibleRange, lastReveal, warned, nextId, spawned,
                   selState>>

(***************************************************************************)
(* onSelectionChanged: what it reads of its collaborators.                 *)
(***************************************************************************)
\* selection-change notifications raised in one behaviour
MaxNotifs == 2

\* a falsy window id: the editor has no window
NoWin == 0
\* a falsy grid id: the grid of the window is not known
NoGrid == 0
\* the grid the engine draws window w on
GridOf(w) == w + 1
NoCall == [id |-> 0, requests |-> <<>>]
NoDone == [id |-> 0, requests |-> <<>>]

\* TextEditorSelectionChangeKind, "undefined" when the event carries none
Kinds == {"undefined", "Keyboard", "Mouse", "Command"}

\* bufferManager.getWinIdForTextEditor(editor)
getWinIdForTextEditor(editor) ==
    IF \E w \in Wins : winEditor[w] = editor
    THEN CHOOSE w \in Wins : winEditor[w] = editor
    ELSE NoWin

\* bufferManager.getGridIdForWinId(winId)
getGridIdForWinId(winId) == winGrid[winId]

\* the text of the documents, as the byte length of the character at place i
\* of a line: the first character of line 0 of dB takes two bytes
CharBytes(d, line, i) == IF d = "dB" /\ line = 0 /\ i = 1 THEN 2 ELSE 1

\* the byte column of character column ch
RECURSIVE ByteCol(_, _, _)
ByteCol(d, line, ch) ==
    IF ch = 0 THEN 0 ELSE CharBytes(d, line, ch) + ByteCol(d, line, ch - 1)

\* utils.editorPositionToNeovimPosition: one-based line, byte column
editorPositionToNeovimPosition(editor, pos) ==
    <<pos.line + 1, ByteCol(DocOf(editor), pos.line, pos.character)>>

\* utils.getNeovimCursorPosFromEditor: the position of the active end of the
\* primary selection the editor has now
getNeovimCursorPosFromEditor(editor) ==
    editorPositionToNeovimPosition(editor, selections[editor][1].active)

(***************************************************************************)
(* onSelectionChanged: the requests of the atomic call.                    *)
(***************************************************************************)
SetCursor(winId, cursorPos) ==
    [cmd |-> "nvim_win_set_cursor", win |-> winId, pos |-> cursorPos]
InputMouse(grid, row, col) ==
    [cmd |-> "nvim_input_mouse", button |-> "left", action |-> "press",
     modifier |-> "", grid |-> grid, row |-> row, col |-> col]
Input(keys) == [cmd |-> "nvim_input", keys |-> keys]
StoreJump(winId) ==
    [cmd |-> "nvim_call_function", fn |-> "VSCodeStoreJumpForWin", args |-> <<winId>>]

\* the mutant of MultiSelectionRequests that drops the event only when it is
\* neither from the mouse nor forwarded
MultiSelectionRequestsAnd(h, winId) ==
    IF h.kind /= "Mouse" /\ ~mouseSelectionEnabled THEN <<>>
    ELSE LET grid == getGridIdForWinId(winId)
             firstPos == h.selections[1].anchor
             mouseClickPos == editorPositionToNeovimPosition(h.editor, firstPos)
             lastSelection == h.selections[Len(h.selections)]
             cursorPos == editorPositionToNeovimPosition(h.editor, lastSelection.active)
         IN (IF mode /= "visual" /\ grid /= NoGrid
             THEN <<InputMouse(grid, mouseClickPos[1] - 1, mouseClickPos[2]), Input("v")>>
             ELSE <<>>)
            \o <<SetCursor(winId, cursorPos)>>

\* the mutant of MultiSelectionRequests that presses at the anchor of the last
\* selection and sends the mouse line one-based
MultiSelectionRequestsLastAnchor(h, winId) ==
    IF h.kind /= "Mouse" \/ ~mouseSelectionEnabled THEN <<>>
    ELSE LET grid == getGridIdForWinId(winId)
             lastSelection == h.selections[Len(h.selections)]
             firstPos == lastSelection.anchor
             mouseClickPos == editorPositionToNeovimPosition(h.editor, firstPos)
             cursorPos == editorPositionToNeovimPosition(h.editor, lastSelection.active)
         IN (IF mode /= "visual" /\ grid /= NoGrid
             THEN <<InputMouse(grid, mouseClickPos[1], mouseClickPos[2]), Input("v")>>
             ELSE <<>>)
            \o <<SetCursor(winId, cursorPos)>>

\* the branch of more than one selection or of a selection that is not
\* collapsed; <<>> when the handler returns without a call
MultiSelectionRequests(h, winId) ==
    IF h.kind /= "Mouse" \/ ~mouseSelectionEnabled THEN <<>>
    ELSE LET grid == getGridIdForWinId(winId)
             \* need to start visual mode from anchor char
             firstPos == h.selections[1].anchor
             mouseClickPos == editorPositionToNeovimPosition(h.editor, firstPos)
             lastSelection == h.selections[Len(h.selections)]
             cursorPos == editorPositionToNeovimPosition(h.editor, lastSelection.active)
         IN (IF mode /= "visual" /\ grid /= NoGrid
             \* nvim_input_mouse is zero based
             THEN <<InputMouse(grid, mouseClickPos[1] - 1, mouseClickPos[2]), Input("v")>>
             ELSE <<>>)
            \o <<SetCursor(winId, cursorPos)>>

\* the mutant of CollapsedRequests that stores a jump whichever editor has
\* the focus
CollapsedRequestsAnyEditor(h, winId) ==
    LET createJumpEntry == h.kind = "undefined" \/ h.kind = "Command"
        cursorPos == getNeovimCursorPosFromEditor(h.editor)
    IN <<SetCursor(winId, cursorPos)>>
       \o (IF createJumpEntry THEN <<StoreJump(winId)>> ELSE <<>>)

\* the branch of one collapsed selection
CollapsedRequests(h, winId) ==
    LET createJumpEntry ==
            /\ (h.kind = "undefined" \/ h.kind = "Command")
            /\ h.editor = activeEditor
        cursorPos == getNeovimCursorPosFromEditor(h.editor)
    IN <<SetCursor(winId, cursorPos)>>
       \o (IF createJumpEntry THEN <<StoreJump(winId)>> ELSE <<>>)

\* the requests composed after the two awaits; <<>> when the handler returns
\* without a call
Requests(h) ==
    LET winId == getWinIdForTextEditor(h.editor)
    IN IF winId = NoWin THEN <<>>
       ELSE IF Len(h.selections) > 1 \/ h.selections[1].active /= h.selections[1].anchor
            THEN MultiSelectionRequests(h, winId)
            ELSE CollapsedRequests(h, winId)

(***************************************************************************)
(* onSelectionChanged: the invocation and its two continuations.           *)
(***************************************************************************)
\* the mutant of OnSelectionChanged that does not look at the mode
OnSelectionChangedAnyMode(e) ==
    /\ Idle
    /\ nextNotif <= MaxNotifs
    /\ nextNotif' = nextNotif + 1
    /\ handlers' = handlers \cup
                      {[id |-> nextNotif, pc |-> "layout", editor |-> e.textEditor,
                        kind |-> e.kind, selections |-> e.selections]}
    /\ UNCHANGED <<cursorModes, cursorStyle, visibleEditors, winEditor, lockHeld,
                   waiters, visibleRange, lastReveal, warned, nextId, spawned,
                   mode, layoutPending, activeEditor, winGrid,
                   mouseSelectionEnabled,
                   subscribed>>

\* the invocation up to its first await: dropped in insert mode, suspended on
\* the layout synchronisation otherwise
OnSelectionChanged(e) ==
    /\ Idle
    /\ nextNotif <= MaxNotifs
    /\ nextNotif' = nextNotif + 1
    /\ handlers' = IF mode = "insert" THEN handlers
                   ELSE handlers \cup
                          {[id |-> nextNotif, pc |-> "layout", editor |-> e.textEditor,
                            kind |-> e.kind, selections |-> e.selections]}
    /\ UNCHANGED <<cursorModes, cursorStyle, visibleEditors, winEditor, lockHeld,
                   waiters, visibleRange, lastReveal, warned, nextId, spawned,
                   mode, layoutPending, activeEditor, winGrid,
                   mouseSelectionEnabled,
                   subscribed>>

\* the mutant of ResumeAfterLayout that does not wait for the layout
ResumeAfterLayoutNoAwait(h) ==
    /\ h \in handlers /\ h.pc = "layout"
    /\ handlers' = (handlers \ {h}) \cup {[h EXCEPT !.pc = "lock"]}
    /\ UNCHANGED <<cursorModes, cursorStyle, visibleEditors, winEditor, lockHeld,
                   waiters, selections, visibleRange, lastReveal, warned, nextId,
                   spawned, mode, layoutPending, activeEditor, winGrid,
                   mouseSelectionEnabled, nextNotif,
                   subscribed>>

\* the continuation of the first await: suspended on the lock of the document
ResumeAfterLayout(h) ==
    /\ h \in handlers /\ h.pc = "layout"
    /\ LayoutSynced
    /\ handlers' = (handlers \ {h}) \cup {[h EXCEPT !.pc = "lock"]}
    /\ UNCHANGED <<cursorModes, cursorStyle, visibleEditors, winEditor, lockHeld,
                   waiters, selections, visibleRange, lastReveal, warned, nextId,
                   spawned, mode, layoutPending, activeEditor, winGrid,
                   mouseSelectionEnabled, nextNotif,
                   subscribed>>

\* the mutant of ResumeAfterLock that resumes the invocations in the order of
\* their notifications
ResumeAfterLockSerial(h) ==
    /\ h \in handlers /\ h.pc = "lock"
    /\ \A g \in handlers : g.id >= h.id
    /\ LockFree(DocOf(h.editor))
    /\ handlers' = handlers \ {h}
    /\ lastCall' = IF Requests(h) = <<>> THEN NoCall
                   ELSE [id |-> h.id, requests |-> Requests(h)]
    /\ UNCHANGED <<cursorModes, cursorStyle, visibleEditors, winEditor, lockHeld,
                   waiters, selections, visibleRange, lastReveal, warned, nextId,
                   spawned, mode, layoutPending, activeEditor, winGrid,
                   mouseSelectionEnabled, nextNotif,
                   subscribed>>

\* the continuation of the second await: the requests are composed and, when
\* there are any, sent in one atomic call
ResumeAfterLock(h) ==
    /\ h \in handlers /\ h.pc = "lock"
    /\ LockFree(DocOf(h.editor))
    /\ handlers' = handlers \ {h}
    /\ lastCall' = IF Requests(h) = <<>> THEN NoCall
                   ELSE [id |-> h.id, requests |-> Requests(h)]
    /\ UNCHANGED <<cursorModes, cursorStyle, visibleEditors, winEditor, lockHeld,
                   waiters, selections, visibleRange, lastReveal, warned, nextId,
                   spawned, mode, layoutPending, activeEditor, winGrid,
                   mouseSelectionEnabled, nextNotif,
                   subscribed>>

(***************************************************************************)
(* The collaborators of the selection handler: the engine changes mode,    *)
(* the focus moves, a layout change begins and settles.                    *)
(***************************************************************************)
ModeSwitch(m) ==
    /\ Idle
    /\ m /= mode
    /\ mode' = m
    /\ UNCHANGED <<cursorModes, cursorStyle, visibleEditors, winEditor, lockHeld,
                   waiters, selections, visibleRange, lastReveal, warned, nextId,
                   spawned,
                   layoutPending, activeEditor, winGrid, mouseSelectionEnabled,
                   handlers, nextNotif,
                   subscribed>>

FocusChange(e) ==
    /\ Idle
    /\ e /= activeEditor
    /\ activeEditor' = e
    /\ UNCHANGED <<cursorModes, cursorStyle, visibleEditors, winEditor, lockHeld,
                   waiters, selections, visibleRange, lastReveal, warned, nextId,
                   spawned,
                   mode, layoutPending, winGrid, mouseSelectionEnabled,
                   handlers, nextNotif,
                   subscribed>>

BeginLayout ==
    /\ Idle
    /\ ~layoutPending
    /\ layoutPending' = TRUE
    /\ UNCHANGED <<cursorModes, cursorStyle, visibleEditors, winEditor, lockHeld,
                   waiters, selections, visibleRange, lastReveal, warned, nextId,
                   spawned,
                   mode, activeEditor, winGrid, mouseSelectionEnabled,
                   handlers, nextNotif,
                   subscribed>>

\* the window whose binding a layout change replaces
LayoutWin == 2
LayoutEditor == "e2"
Bindings == {"unbound", "nogrid", "bound"}

\* the layout change settles: LayoutWin has lost its editor, or has it but no
\* grid yet, or has both
EndLayout(b) ==
    /\ Idle
    /\ layoutPending
    /\ layoutPending' = FALSE
    /\ winEditor' = [winEditor EXCEPT
                        ![LayoutWin] = IF b = "unbound" THEN NoEditor ELSE LayoutEditor]
    /\ winGrid' = [winGrid EXCEPT
                      ![LayoutWin] = IF b = "bound" THEN GridOf(LayoutWin) ELSE NoGrid]
    /\ UNCHANGED <<cursorModes, cursorStyle, visibleEditors, lockHeld,
                   waiters, selections, visibleRange, lastReveal, warned, nextId,
                   spawned,
                   mode, activeEditor, mouseSelectionEnabled,
                   handlers, nextNotif,
                   subscribed>>

\* bufferManager binds window w to editor e, which leaves the window it had;
\* with NoEditor the window loses its editor (the editor was closed)
Rebind(w, e) ==
    /\ Idle
    /\ winEditor[w] /= e
    /\ winEditor' = [x \in Wins |->
                        IF x = w THEN e
                        ELSE IF winEditor[x] = e THEN NoEditor ELSE winEditor[x]]
    /\ UNCHANGED <<cursorModes, cursorStyle, visibleEditors, lockHeld,
                   waiters, selections, visibleRange, lastReveal, warned, nextId,
                   spawned, selState>>

(***************************************************************************)
(* dispose                                                                 *)
(***************************************************************************)
\* every disposable of this.disposables is disposed of: the subscription to
\* the selection changes; no other field is written
Dispose ==
    /\ Idle
    /\ subscribed
    /\ subscribed' = FALSE
    /\ UNCHANGED <<cursorModes, cursorStyle, visibleEditors, winEditor, lockHeld,
                   waiters, selections, visibleRange, lastReveal, warned, nextId,
                   spawned, mode, layoutPending, activeEditor, winGrid,
                   mouseSelectionEnabled, handlers, nextNotif>>

(***************************************************************************)
(* Inputs.                                                                 *)
(***************************************************************************)
Viewport(tuples) == [name |-> "win_viewport", args |-> tuples]
Tuple(w, p) == [win |-> w, curline |-> p.line, curcol |-> p.character]

\* the batches of the concurrency specification: cursor updates of the three
\* bound windows
ConcEvents == {Viewport(<<Tuple(1, Pos(0, 0))>>), Viewport(<<Tuple(1, Pos(1, 1))>>),
               Viewport(<<Tuple(2, Pos(0, 0))>>), Viewport(<<Tuple(3, Pos(1, 1))>>)}
ConcBatches == UNION {[1..n -> ConcEvents] : n \in 1..MaxBatchLen}

InitCore ==
    /\ cursorModes = [m \in ModeNames |-> NoShape]
    /\ cursorStyle = [e \in Editors |-> "Line"]
    /\ visibleEditors = {"e1", "e2"}
    /\ winEditor = [w \in Wins |->
                      CASE w = 1 -> "e1" [] w = 2 -> "e2" [] w = 3 -> "e3"
                        [] OTHER -> NoEditor]
    /\ lockHeld = [d \in Docs |-> FALSE]
    /\ waiters = [d \in Docs |-> <<>>]
    /\ selections = [e \in Editors |-> <<Collapsed(Pos(0, 0))>>]
    /\ visibleRange = [e \in Editors |-> [start |-> Pos(0, 0), end |-> Pos(2, 5)]]
    /\ lastReveal = [e \in Editors |-> "none"]
    /\ warned = <<>>
    /\ nextId = 1
    /\ lastBatch = NoBatch
    /\ spawned = <<>>
    /\ wroteLocked = FALSE
    /\ lastApplied = [d \in Docs |-> [id |-> 0, waited |-> FALSE]]
    /\ lastGated = [e \in Editors |-> NoPos]
    /\ mode = "normal"
    /\ layoutPending = FALSE
    /\ activeEditor = "e1"
    /\ winGrid = [w \in Wins |-> GridOf(w)]
    /\ handlers = {}
    /\ nextNotif = 1
    /\ lastCall = NoCall
    /\ insertNotifs = {}
    /\ lastDone = NoDone
    /\ subscribed = TRUE
    /\ pendingEcho = {}
    /\ lastApply = NoApply
    /\ callOrder = <<>>
    /\ passedLayout = {}
    /\ gatedBound = [i \in 1..MaxTasks |-> NoEditor]

\* mouse selections are forwarded to the engine
Init == InitCore /\ mouseSelectionEnabled = TRUE

\* the batches of the scanning specification: cursor updates of two bound
\* windows and the unbound window 4 (window 1 twice in one event), mode
\* definitions (a redefinition, entries without name or shape), mode changes
\* (of a mode never defined too) and an event of another name
ModeInfo(modes) ==
    [name |-> "mode_info_set", args |-> <<[enabled |-> TRUE, modes |-> modes]>>]
ModeChange(m) == [name |-> "mode_change", args |-> <<[mode |-> m, idx |-> 0]>>]
Mode(n, s) == [name |-> n, cursor_shape |-> s]
ScanEvents ==
    {Viewport(<<Tuple(2, Pos(0, 0))>>),
     Viewport(<<Tuple(1, Pos(0, 0)), Tuple(4, Pos(0, 0)), Tuple(1, Pos(1, 1))>>),
     ModeInfo(<<Mode("normal", "block"), Mode("insert", "vertical")>>),
     ModeInfo(<<Mode("normal", "horizontal"), Mode("", "block"), Mode("insert", "")>>),
     ModeChange("normal"), ModeChange("insert"), ModeChange("visual"),
     [name |-> "flush", args |-> <<>>]}
ScanBatches == UNION {[1..n -> ScanEvents] : n \in 1..MaxBatchLen}

(***************************************************************************)
(* History variables: what the properties read of the past.                *)
(***************************************************************************)
RECURSIVE Gate(_, _)
Gate(g, tasks) ==
    IF tasks = <<>> THEN g
    ELSE Gate([g EXCEPT ![Head(tasks).editor] =
                              Pos(Head(tasks).line, Head(tasks).col)],
              Tail(tasks))

\* the batch just handled and the state it was handled in
RecordBatch(b) ==
    lastBatch' = [batch |-> b, modes |-> cursorModes, style |-> cursorStyle,
                  bound |-> winEditor]

\* the positions of the tasks just gated
RecordGate == lastGated' = Gate(lastGated, spawned')

\* the task that just left the queue of document d wrote its position
RecordApply(d) ==
    LET left == {i \in DOMAIN waiters[d] :
                    \A j \in DOMAIN waiters'[d] : waiters'[d][j].id /= waiters[d][i].id}
        t == waiters[d][CHOOSE i \in left : TRUE]
    IN /\ wroteLocked' = (wroteLocked \/ lockHeld[d])
       /\ lastApplied' = [lastApplied EXCEPT
                             ![d] = [id |-> t.id, waited |-> t.gatedLocked]]

\* the notifications the GUI still owes, and the histories of the selection
\* handler and of the applications
laterHist == <<pendingEcho, lastApply, callOrder, passedLayout, gatedBound>>

\* no invocation of onSelectionChanged returns in the step
Quiet ==
    /\ lastCall' = NoCall /\ lastDone' = NoDone
    /\ UNCHANGED <<insertNotifs, laterHist>>

\* a step of a collaborator
Env(A) == A /\ Quiet /\ UNCHANGED redrawHist

Batch(b) ==
    HandleRedrawBatch(b) /\ RecordGate /\ Quiet
        /\ UNCHANGED <<lastBatch, wroteLocked, lastApplied>>
Resume(d) ==
    ResumeTask(d) /\ RecordApply(d) /\ Quiet /\ UNCHANGED <<lastBatch, lastGated>>
Begin(d) == Env(BeginMutation(d))
End(d) == Env(EndMutation(d))

Next ==
    \/ \E b \in ConcBatches : Batch(b)
    \/ \E d \in Docs : Resume(d)
    \/ \E d \in Docs : Begin(d)
    \/ \E d \in Docs : End(d)

\* the concurrency of the deferred cursor updates
Spec == Init /\ [][Next]_vars

\* the scheduler resumes every task that can resume, and the changes of
\* FreeDoc are flushed; nothing says the changes of StalledDoc ever are
LiveSpec ==
    /\ Init /\ [][Next]_vars
    /\ \A d \in Docs : WF_vars(Resume(d))
    /\ WF_vars(End(FreeDoc))

ScanStep(b) ==
    HandleRedrawBatch(b) /\ RecordBatch(b) /\ Quiet
        /\ UNCHANGED <<lastGated, wroteLocked, lastApplied>>
ScanResume(d) ==
    ResumeTask(d) /\ Quiet /\ UNCHANGED redrawHist

NextScan ==
    \/ \E b \in ScanBatches : ScanStep(b)
    \/ \E d \in Docs : ScanResume(d)

\* the scan of one batch, with the batch and the state before it recorded;
\* no text change is pending in this specification
SpecScan == Init /\ [][NextScan]_vars

(***************************************************************************)
(* The selection handler: inputs, history and specification.               *)
(***************************************************************************)
EngineModes == {"normal", "insert", "visual"}
\* the editor the user changes the selection of
SelEditors == {"e2"}
SelDocs == {DocOf(e) : e \in SelEditors}
Event(e, k, s) == [textEditor |-> e, kind |-> k, selections |-> s]
Range2(a, b) == [anchor |-> a, active |-> b]
\* one collapsed selection (of every origin), one collapsed selection behind
\* the two-byte character, one selection that is not collapsed, and two
\* selections the first of which is collapsed
SelShapes ==
    {<<k, <<Collapsed(Pos(2, 3))>>>> : k \in Kinds}
    \cup {<<"Command", <<Collapsed(Pos(0, 1))>>>>}
    \cup {<<k, <<Range2(Pos(0, 0), Pos(1, 5))>>>> : k \in {"Mouse", "Keyboard"}}
    \cup {<<k, <<Collapsed(Pos(1, 1)), Range2(Pos(0, 2), Pos(0, 1))>>>> :
             k \in {"Mouse", "undefined"}}
SelEvents == {Event(e, ks[1], ks[2]) : e \in SelEditors, ks \in SelShapes}

\* what an invocation saw when it returned and what it sent
Observed(id, editor, kind, sels, cursor, requests) ==
    LET winId == getWinIdForTextEditor(editor)
    IN [id |-> id, editor |-> editor, kind |-> kind, selections |-> sels,
        win |-> winId,
        grid |-> IF winId = NoWin THEN NoGrid ELSE getGridIdForWinId(winId),
        visual |-> mode = "visual",
        focused |-> editor = activeEditor,
        cursor |-> cursor,
        requests |-> requests]

\* the user changes the selection of an editor and the notification is raised
SelectionChanged(e) ==
    /\ subscribed
    /\ selections' = [selections EXCEPT ![e.textEditor] = e.selections]
    /\ OnSelectionChanged(e)
    /\ insertNotifs' = IF mode = "insert" THEN insertNotifs \cup {nextNotif}
                       ELSE insertNotifs
    /\ lastCall' = NoCall
    /\ lastDone' = IF handlers' = handlers
                   THEN Observed(nextNotif, e.textEditor, e.kind, e.selections,
                                 e.selections[1].active, <<>>)
                   ELSE NoDone
    /\ UNCHANGED <<redrawHist, laterHist>>

LayoutDone(h) == Env(ResumeAfterLayout(h))

Compose(h) ==
    /\ ResumeAfterLock(h)
    /\ lastDone' = Observed(h.id, h.editor, h.kind, h.selections,
                            selections[h.editor][1].active,
                            IF lastCall'.id = h.id THEN lastCall'.requests ELSE <<>>)
    /\ UNCHANGED <<redrawHist, insertNotifs, laterHist>>

NextSel ==
    \/ \E e \in SelEvents : SelectionChanged(e)
    \/ \E h \in handlers : LayoutDone(h)
    \/ \E h \in handlers : Compose(h)
    \/ \E m \in EngineModes : Env(ModeSwitch(m))
    \/ \E e \in visibleEditors : Env(FocusChange(e))
    \/ Env(BeginLayout)
    \/ \E b \in Bindings : Env(EndLayout(b))
    \/ \E d \in SelDocs : Begin(d)
    \/ \E d \in SelDocs : End(d)

\* the forwarding of mouse selections is a setting
InitSel == InitCore /\ mouseSelectionEnabled \in BOOLEAN

\* the selection handler and its collaborators
SpecSel == InitSel /\ [][NextSel]_vars

(***************************************************************************)
(* The order of the atomic calls: notifications of two editors of          *)
(* different documents, with the calls and the waits recorded.             *)
(***************************************************************************)
OrderEditors == {"e1", "e2"}
OrderDocs == {DocOf(e) : e \in OrderEditors}
\* a collapsed selection on either editor and a mouse selection that is not
\* collapsed
OrderEvents ==
    {Event("e1", "Keyboard", <<Collapsed(Pos(2, 3))>>),
     Event("e2", "Command", <<Collapsed(Pos(0, 1))>>),
     Event("e2", "Mouse", <<Range2(Pos(0, 0), Pos(1, 5))>>)}

\* the invocation resumes from the layout synchronisation: whether the layout
\* had settled is recorded
OrderLayoutDone(h) ==
    /\ ResumeAfterLayout(h)
    /\ passedLayout' = passedLayout \cup {[id |-> h.id, synced |-> ~layoutPending]}
    /\ lastCall' = NoCall /\ lastDone' = NoDone
    /\ UNCHANGED <<redrawHist, insertNotifs, pendingEcho, gatedBound, lastApply,
                   callOrder>>

\* the invocation resumes from the lock: its call is recorded with what held
\* when it was made
OrderCompose(h) ==
    /\ ResumeAfterLock(h)
    /\ lastDone' = Observed(h.id, h.editor, h.kind, h.selections,
                            selections[h.editor][1].active,
                            IF lastCall'.id = h.id THEN lastCall'.requests ELSE <<>>)
    /\ callOrder' = IF lastCall'.id = h.id
                    THEN Append(callOrder,
                                [id |-> h.id, editor |-> h.editor,
                                 free |-> ~lockHeld[DocOf(h.editor)],
                                 passed |-> \E p \in passedLayout : p.id = h.id])
                    ELSE callOrder
    /\ UNCHANGED <<redrawHist, insertNotifs, pendingEcho, gatedBound, lastApply,
                   passedLayout>>

NextOrder ==
    \/ \E e \in OrderEvents : SelectionChanged(e)
    \/ \E h \in handlers : OrderLayoutDone(h)
    \/ \E h \in handlers : OrderCompose(h)
    \/ Env(BeginLayout)
    \/ \E b \in Bindings : Env(EndLayout(b))
    \/ \E d \in OrderDocs : Begin(d)
    \/ \E d \in OrderDocs : End(d)

SpecOrder == Init /\ [][NextOrder]_vars

(***************************************************************************)
(* Disposal: the batches keep coming, the manager is disposed of once.     *)
(***************************************************************************)
\* batches of one event
DisposeBatches == {<<ev>> : ev \in ScanEvents}

NextDispose ==
    \/ \E b \in DisposeBatches : ScanStep(b)
    \/ \E d \in Docs : ScanResume(d)
    \/ Env(Dispose)

SpecDispose == Init /\ [][NextDispose]_vars

(***************************************************************************)
(* The application of a position to an editor: inputs, history and         *)
(* specification.                                                          *)
(***************************************************************************)
RenderEditor == "e1"
\* target lines above, inside and below the visible ranges, at the half
\* height and one line short of it
RenderLines == {0, 1, 4, 5, 10, 20, 30, 39, 40}
RenderCols == {0, 4, 9}
\* the range of the example with a first column that is not 0, a range of odd
\* height and a range of one line
RenderRanges ==
    {[start |-> Pos(10, 2), end |-> Pos(30, 5)],
     [start |-> Pos(0, 0), end |-> Pos(3, 5)],
     [start |-> Pos(5, 0), end |-> Pos(5, 5)]}
\* a selection that is not collapsed, two selections, three cursors
RenderSelections ==
    {<<Range2(Pos(0, 0), Pos(1, 5))>>,
     <<Collapsed(Pos(1, 1)), Range2(Pos(0, 2), Pos(0, 1))>>,
     <<Collapsed(Pos(4, 4)), Collapsed(Pos(5, 4)), Collapsed(Pos(6, 4))>>}

\* the user scrolls the editor
ScrollTo(e, r) ==
    /\ visibleRange' = [visibleRange EXCEPT ![e] = r]
    /\ UNCHANGED <<cursorModes, cursorStyle, visibleEditors, winEditor, lockHeld,
                   waiters, selections, lastReveal, warned, nextId, spawned,
                   selState>>

\* the editor has carried out the reveal asked for last
Scrolled(e) ==
    /\ lastReveal[e] /= "none"
    /\ visibleRange' = [visibleRange EXCEPT
                           ![e] = RevealRange(visibleRange[e],
                                              selections[e][1].active.line,
                                              lastReveal[e])]
    /\ UNCHANGED <<cursorModes, cursorStyle, visibleEditors, winEditor, lockHeld,
                   waiters, selections, lastReveal, warned, nextId, spawned,
                   selState>>

\* the user replaces the selections of the editor
UserSelects(e, sels) ==
    /\ selections' = [selections EXCEPT ![e] = sels]
    /\ UNCHANGED <<cursorModes, cursorStyle, visibleEditors, winEditor, lockHeld,
                   waiters, visibleRange, lastReveal, warned, nextId, spawned,
                   selState>>

\* what the application of (line, col) to the editor, by the task of that
\* number for window win (0 and NoWin when by no task), found and did; repeat: the step before was the application of the same position to
\* the same editor, and first is what that one did
Application(editor, line, col, win, task) ==
    LET repeat == /\ lastApply.editor = editor
                  /\ lastApply.line = line /\ lastApply.col = col
    IN [editor |-> editor, line |-> line, col |-> col, win |-> win, task |-> task,
        bound |-> IF win = NoWin THEN editor ELSE winEditor[win],
        prior |-> selections[editor],
        visible |-> visibleRange[editor],
        reveal |-> lastReveal'[editor],
        after |-> selections'[editor],
        repeat |-> repeat,
        first |-> IF repeat
                  THEN [reveal |-> lastApply.reveal, after |-> lastApply.after]
                  ELSE [reveal |-> "none", after |-> <<>>]]

RenderApply(line, col) ==
    /\ updateCursorPosInEditor(RenderEditor, line, col)
    /\ UNCHANGED <<cursorModes, cursorStyle, visibleEditors, winEditor, lockHeld,
                   waiters, warned, nextId, spawned, selState>>
    /\ lastApply' = Application(RenderEditor, line, col, NoWin, 0)
    /\ lastCall' = NoCall /\ lastDone' = NoDone
    /\ UNCHANGED <<redrawHist, insertNotifs, pendingEcho, gatedBound, callOrder,
                   passedLayout>>

\* a step that applies no position
NoApplication(A) ==
    /\ A
    /\ lastApply' = NoApply
    /\ lastCall' = NoCall /\ lastDone' = NoDone
    /\ UNCHANGED <<redrawHist, insertNotifs, pendingEcho, gatedBound, callOrder,
                   passedLayout>>

NextRender ==
    \/ \E l \in RenderLines, c \in RenderCols : RenderApply(l, c)
    \/ \E r \in RenderRanges : NoApplication(ScrollTo(RenderEditor, r))
    \/ NoApplication(Scrolled(RenderEditor))
    \/ \E sels \in RenderSelections : NoApplication(UserSelects(RenderEditor, sels))

\* positions applied to an editor the user scrolls and selects in
SpecRender == Init /\ [][NextRender]_vars

(***************************************************************************)
(* The deferred updates while the windows are bound anew.                  *)
(***************************************************************************)
RebindWins == {2, 3}
RebindEditors == {"e2", "e3", NoEditor}
RebindBatches ==
    {<<Viewport(<<Tuple(2, Pos(1, 1))>>)>>,
     <<Viewport(<<Tuple(3, Pos(0, 0))>>)>>,
     <<Viewport(<<Tuple(2, Pos(0, 0)), Tuple(3, Pos(1, 1))>>)>>}

\* the batch is handled: the editor of the window of every task it spawns is
\* recorded
RebindBatch(b) ==
    /\ HandleRedrawBatch(b)
    /\ gatedBound' = [i \in 1..MaxTasks |->
                         IF \E k \in DOMAIN spawned' : spawned'[k].id = i
                         THEN winEditor[spawned'[CHOOSE k \in DOMAIN spawned' :
                                                    spawned'[k].id = i].win]
                         ELSE gatedBound[i]]
    /\ lastApply' = NoApply
    /\ lastCall' = NoCall /\ lastDone' = NoDone
    /\ UNCHANGED <<redrawHist, insertNotifs, pendingEcho, callOrder, passedLayout>>

\* the oldest task of document d resumes: its application is recorded
RebindResume(d) ==
    /\ ResumeTask(d)
    /\ lastApply' = LET t == Head(waiters[d])
                    IN Application(t.editor, t.line, t.col, t.win, t.id)
    /\ lastCall' = NoCall /\ lastDone' = NoDone
    /\ UNCHANGED <<redrawHist, insertNotifs, pendingEcho, gatedBound, callOrder,
                   passedLayout>>

NextRebind ==
    \/ \E b \in RebindBatches : RebindBatch(b)
    \/ \E d \in Docs : RebindResume(d)
    \/ \E d \in Docs : NoApplication(BeginMutation(d))
    \/ \E d \in Docs : NoApplication(EndMutation(d))
    \/ \E w \in RebindWins, e \in RebindEditors : NoApplication(Rebind(w, e))

SpecRebind == Init /\ [][NextRebind]_vars

(***************************************************************************)
(* The notifications the applications raise: batches only, no selection    *)
(* change by the user.                                                     *)
(***************************************************************************)
EchoBatches ==
    {<<Viewport(<<Tuple(1, Pos(1, 1))>>)>>,
     <<Viewport(<<Tuple(2, Pos(0, 1))>>)>>,
     <<Viewport(<<Tuple(1, Pos(0, 0)), Tuple(2, Pos(1, 1))>>)>>}

\* the oldest task of document d resumes: when it changes the selection of
\* its editor, the GUI owes the notification of the change
EchoResume(d) ==
    /\ ResumeTask(d)
    /\ pendingEcho' = LET e == Head(waiters[d]).editor
                      IN IF selections'[e] /= selections[e]
                         THEN pendingEcho \cup {e} ELSE pendingEcho
    /\ lastCall' = NoCall /\ lastDone' = NoDone
    /\ UNCHANGED <<redrawHist, insertNotifs, lastApply, callOrder, passedLayout,
                   gatedBound>>

\* the GUI raises the notification of a selection an application has set: the
\* selection the editor has, with no kind
EchoNotify(e) ==
    /\ subscribed
    /\ e \in pendingEcho
    /\ pendingEcho' = pendingEcho \ {e}
    /\ OnSelectionChanged(Event(e, "undefined", selections[e]))
    /\ UNCHANGED selections
    /\ insertNotifs' = IF mode = "insert" THEN insertNotifs \cup {nextNotif}
                       ELSE insertNotifs
    /\ lastCall' = NoCall
    /\ lastDone' = IF handlers' = handlers
                   THEN Observed(nextNotif, e, "undefined", selections[e],
                                 selections[e][1].active, <<>>)
                   ELSE NoDone
    /\ UNCHANGED <<redrawHist, lastApply, callOrder, passedLayout, gatedBound>>

NextEcho ==
    \/ \E b \in EchoBatches : Batch(b)
    \/ \E d \in Docs : EchoResume(d)
    \/ \E e \in Editors : EchoNotify(e)
    \/ \E h \in handlers : LayoutDone(h)
    \/ \E h \in handlers : Compose(h)
    \/ \E d \in Docs : Begin(d)
    \/ \E d \in Docs : End(d)

SpecEcho == Init /\ [][NextEcho]_vars

(***************************************************************************)
(* Properties of the deferred cursor updates (Spec, LiveSpec).             *)
(***************************************************************************)
Waiting(e) == \E i \in DOMAIN waiters[DocOf(e)] : waiters[DocOf(e)][i].editor = e
WaitingId(d, k) == \E i \in DOMAIN waiters[d] : waiters[d][i].id = k

\* C1: no task has written a cursor position to an editor while the
\* change-completion lock of the editor's document was held.
C1_NoWriteUnderLock == ~wroteLocked

\* a task gated while the lock was held has written its position, and the
\* lock of a document is held at that time
C1_Witness ==
    \E d \in Docs : lastApplied[d].waited /\ \E d2 \in Docs : lockHeld[d2]

\* C2: the tasks of one document are applied in the order they were gated
\* (every task still waiting was gated after the one applied last), and an
\* editor with no task left shows the position gated last for it.
C2_PerDocumentOrder ==
    /\ \A d \in Docs : \A i \in DOMAIN waiters[d] :
          waiters[d][i].id > lastApplied[d].id
    /\ \A e \in Editors :
          (lastGated[e] /= NoPos /\ ~Waiting(e))
              => selections[e] = <<Collapsed(lastGated[e])>>

\* tasks 1 and 3 are of document dA and task 2, gated between them, of dB;
\* all three are applied, task 3 after waiting on the held lock
C2_Witness ==
    /\ lastApplied["dA"].id = 3 /\ lastApplied["dA"].waited
    /\ lastApplied["dB"].id = 2
    /\ selections["e1"] = <<Collapsed(lastGated["e1"])>>

\* C3: whatever happens to the lock of StalledDoc, every task waiting on
\* FreeDoc is eventually applied, and while tasks wait on the held lock of
\* StalledDoc the next batch can still be handled.
C3_StallBlocksOnlyItsDocument ==
    /\ \A k \in 1..MaxTasks :
          WaitingId(FreeDoc, k) ~> (lastApplied[FreeDoc].id >= k)
    /\ [](lockHeld[StalledDoc] /\ waiters[StalledDoc] /= <<>> /\ Idle
            /\ nextId <= MaxTasks
            => ENABLED (\E b \in ConcBatches : Batch(b)))

\* a task of FreeDoc gated after a task that still waits on the held lock of
\* StalledDoc has been applied
C3_Witness ==
    /\ lockHeld[StalledDoc] /\ waiters[StalledDoc] /= <<>>
    /\ lastApplied[FreeDoc].id > Head(waiters[StalledDoc]).id

(***************************************************************************)
(* Properties of the scan of a batch (SpecScan).                           *)
(***************************************************************************)
Handled == lastBatch /= NoBatch

\* the viewport tuples of a batch, in scan order
RECURSIVE Tuples(_)
Tuples(b) ==
    IF b = <<>> THEN <<>>
    ELSE (IF Head(b).name = "win_viewport" THEN Head(b).args ELSE <<>>) \o Tuples(Tail(b))

StagedWins(b) == {Tuples(b)[i].win : i \in DOMAIN Tuples(b)}
\* the last tuple of window w in the batch
LastEntry(b, w) ==
    LET t == Tuples(b)
        last == CHOOSE i \in DOMAIN t :
                    t[i].win = w /\ \A j \in DOMAIN t : t[j].win = w => j <= i
    IN t[last]
\* the place of the first tuple of window w in the batch
FirstIndex(b, w) ==
    LET t == Tuples(b)
    IN CHOOSE i \in DOMAIN t : t[i].win = w /\ \A j \in DOMAIN t : t[j].win = w => i <= j
Range(q) == {q[i] : i \in DOMAIN q}
Applied(t) == ~WaitingId(DocOf(t.editor), t.id)

\* C4: the tasks spawned by a batch are those of exactly the staged windows
\* that have an editor, the warnings those of exactly the staged windows that
\* have none, and every spawned task waits on its lock or has written its
\* position.
C4_UnboundNeverAborts ==
    Handled =>
        /\ {t.win : t \in Range(spawned)} =
              {w \in StagedWins(lastBatch.batch) : lastBatch.bound[w] /= NoEditor}
        /\ Range(warned) =
              {w \in StagedWins(lastBatch.batch) : lastBatch.bound[w] = NoEditor}
        /\ \A t \in Range(spawned) :
              \/ WaitingId(DocOf(t.editor), t.id)
              \/ selections[t.editor] = <<Collapsed(Pos(t.line, t.col))>>

\* the batch staged the unbound window 4 before the bound window 2; the update
\* of window 2 was spawned after the warning and has been applied
C4_Witness ==
    /\ Handled
    /\ warned = <<4>>
    /\ \E t \in Range(spawned) :
          /\ t.win = 2 /\ Applied(t)
          /\ FirstIndex(lastBatch.batch, 4) < FirstIndex(lastBatch.batch, 2)
          /\ selections[t.editor] = <<Collapsed(Pos(t.line, t.col))>>

\* C5: a batch spawns at most one task per window, and the position of the
\* task is that of the last viewport tuple of its window in the batch.
C5_LastWriteWins ==
    Handled =>
        /\ \A i, j \in DOMAIN spawned : spawned[i].win = spawned[j].win => i = j
        /\ \A t \in Range(spawned) :
              LET e == LastEntry(lastBatch.batch, t.win)
              IN t.line = e.curline /\ t.col = e.curcol
        /\ \A d \in Docs : \A i \in DOMAIN waiters[d] :
              waiters[d][i].id >= nextId - Len(spawned)
                  => waiters[d][i] \in Range(spawned)

\* window 1 was staged twice with different positions; its one task carries
\* the second and has written it
C5_Witness ==
    /\ Handled
    /\ \E i, j \in DOMAIN Tuples(lastBatch.batch) :
          /\ i < j
          /\ Tuples(lastBatch.batch)[i].win = 1 /\ Tuples(lastBatch.batch)[j].win = 1
          /\ Tuples(lastBatch.batch)[i].curline /= Tuples(lastBatch.batch)[j].curline
    /\ \E t \in Range(spawned) : t.win = 1 /\ Applied(t)
    /\ selections["e1"] = <<Collapsed(Pos(1, 1))>>

\* the valid definitions of mode m in the events before place i of the batch
DefsBefore(b, i, m) ==
    {<<j, k>> \in (1..(i - 1)) \X (1..3) :
        /\ b[j].name = "mode_info_set"
        /\ k \in DOMAIN b[j].args[1].modes
        /\ b[j].args[1].modes[k].name = m
        /\ b[j].args[1].modes[k].cursor_shape /= ""}
\* the shape defined last for mode m before place i, NoShape when none is
ShapeBefore(b, i, m, modes0) ==
    LET defs == DefsBefore(b, i, m)
        last == CHOOSE d \in defs :
                    \A o \in defs : o[1] < d[1] \/ (o[1] = d[1] /\ o[2] <= d[2])
    IN IF defs /= {} THEN b[last[1]].args[1].modes[last[2]].cursor_shape
       ELSE IF m \in DOMAIN modes0 THEN modes0[m]
       ELSE NoShape
\* the places of the mode changes of the batch whose mode has a shape by then
Effective(b, modes0) ==
    {i \in DOMAIN b :
        /\ b[i].name = "mode_change"
        /\ ShapeBefore(b, i, b[i].args[1].mode, modes0) /= NoShape}
ExpectedStyle(b, modes0, style0, e) ==
    LET eff == Effective(b, modes0)
        i == CHOOSE x \in eff : \A y \in eff : y <= x
        shape == ShapeBefore(b, i, b[i].args[1].mode, modes0)
    IN IF eff = {} \/ e \notin visibleEditors THEN style0[e]
       ELSE CASE shape = "block" -> "Block"
              [] shape = "horizontal" -> "Underline"
              [] shape = "vertical" -> "Line"

\* C6: after a batch, every visible editor has the style of the shape that
\* was defined last, before the last mode change whose mode had a definition
\* by then (in the batch or before it); with no such mode change no style has
\* changed; and the map holds for every mode the shape defined last.
C6_ModeChangeInScanOrder ==
    Handled =>
        /\ \A e \in Editors :
              cursorStyle[e] =
                  ExpectedStyle(lastBatch.batch, lastBatch.modes, lastBatch.style, e)
        /\ \A m \in ModeNames :
              cursorModes[m] =
                  ShapeBefore(lastBatch.batch, Len(lastBatch.batch) + 1, m,
                              lastBatch.modes)

\* underline style and no shape for insert before the batch; the batch
\* defines normal = block and then insert = vertical and changes to insert:
\* the visible editors show the line style
C6_Witness ==
    /\ Handled
    /\ lastBatch.style["e1"] = "Underline"
    /\ lastBatch.modes["insert"] = NoShape
    /\ lastBatch.batch = <<ModeInfo(<<Mode("normal", "block"), Mode("insert", "vertical")>>),
                           ModeChange("insert")>>
    /\ cursorStyle["e1"] = "Line" /\ cursorStyle["e2"] = "Line"

(***************************************************************************)
(* Properties of the selection handler (SpecSel).                          *)
(***************************************************************************)
\* an invocation returned in the step just taken, after its two awaits
Returned == lastDone.id /= 0 /\ lastDone.id \notin insertNotifs
\* the event of the invocation carries one selection and it is collapsed
CollapsedEvent ==
    /\ Len(lastDone.selections) = 1
    /\ lastDone.selections[1].anchor = lastDone.selections[1].active
\* the engine position of an editor position: one-based line, byte column
Translated(editor, pos) ==
    <<pos.line + 1, ByteCol(DocOf(editor), pos.line, pos.character)>>

\* C7: a notification raised in insert mode starts no invocation, and no
\* atomic call is ever made for it, whatever the mode, the layout and the
\* lock become afterwards.
C7_InsertModeDrops ==
    /\ \A h \in handlers : h.id \notin insertNotifs
    /\ lastCall.id \notin insertNotifs
    /\ lastDone.id \in insertNotifs => lastDone.requests = <<>>

\* notification 1 was raised in insert mode; the engine has left insert mode
\* since, and the invocation of notification 2 has made its call
C7_Witness ==
    /\ 1 \in insertNotifs
    /\ mode /= "insert"
    /\ lastCall.id = 2

\* C8: for one collapsed selection on an editor with a window, outside insert
\* mode, the call is set-cursor at the translated position of the editor's
\* cursor, followed by the jump entry exactly when the kind is undefined or
\* Command and the editor has the focus; position (2, 3) of kind Command on
\* the focused editor gives set-cursor [3, 3] and the jump entry.
C8_CollapsedBatch ==
    (Returned /\ lastDone.win /= NoWin /\ CollapsedEvent) =>
        LET set == SetCursor(lastDone.win, Translated(lastDone.editor, lastDone.cursor))
            jump == lastDone.kind \in {"undefined", "Command"} /\ lastDone.focused
        IN /\ lastDone.requests =
                  IF jump THEN <<set, StoreJump(lastDone.win)>> ELSE <<set>>
           /\ lastCall = [id |-> lastDone.id, requests |-> lastDone.requests]
           /\ (lastDone.cursor = Pos(2, 3) /\ lastDone.kind = "Command"
                   /\ lastDone.focused)
                => lastDone.requests =
                      <<[cmd |-> "nvim_win_set_cursor", win |-> lastDone.win,
                         pos |-> <<3, 3>>],
                        [cmd |-> "nvim_call_function", fn |-> "VSCodeStoreJumpForWin",
                         args |-> <<lastDone.win>>]>>

\* the example of the claim: window 2, position (2, 3), kind Command, focus
C8_Witness ==
    /\ Returned /\ lastDone.win = 2 /\ lastDone.focused
    /\ lastDone.kind = "Command"
    /\ lastDone.selections = <<Collapsed(Pos(2, 3))>>
    /\ lastCall.requests =
          <<[cmd |-> "nvim_win_set_cursor", win |-> 2, pos |-> <<3, 3>>],
            [cmd |-> "nvim_call_function", fn |-> "VSCodeStoreJumpForWin",
             args |-> <<2>>]>>

\* a mouse event of several selections or of one that is not collapsed, on an
\* editor with a window, with the forwarding enabled
MouseMulti ==
    /\ Returned /\ lastDone.win /= NoWin /\ ~CollapsedEvent
    /\ lastDone.kind = "Mouse" /\ mouseSelectionEnabled
\* the press at the anchor of the first selection and the key "v"
Gesture ==
    LET at == Translated(lastDone.editor, lastDone.selections[1].anchor)
    IN <<[cmd |-> "nvim_input_mouse", button |-> "left", action |-> "press",
          modifier |-> "", grid |-> lastDone.grid, row |-> at[1] - 1, col |-> at[2]],
         [cmd |-> "nvim_input", keys |-> "v"]>>
\* set-cursor at the active end of the last selection
LastActive ==
    <<[cmd |-> "nvim_win_set_cursor", win |-> lastDone.win,
       pos |-> Translated(lastDone.editor,
                          lastDone.selections[Len(lastDone.selections)].active)]>>

\* C9 as stated: outside visual mode the call is the press, "v" and
\* set-cursor; in visual mode it is set-cursor alone.
C9_AsStated ==
    MouseMulti =>
        lastDone.requests = IF ~lastDone.visual THEN Gesture \o LastActive
                            ELSE LastActive

\* C9, amended: outside visual mode and with the grid of the window known the
\* call is the press at the anchor of the first selection, "v" and set-cursor
\* at the active end of the last selection; in visual mode, or with the grid
\* unknown, it is set-cursor alone.
C9_MouseSelectionBatch ==
    MouseMulti =>
        /\ lastDone.requests =
              IF ~lastDone.visual /\ lastDone.grid /= NoGrid
              THEN Gesture \o LastActive
              ELSE LastActive
        /\ lastCall = [id |-> lastDone.id, requests |-> lastDone.requests]

\* the example of the claim: anchor (0, 0) and active (1, 5) on window 2 with
\* grid 3, not in visual mode
C9_Witness ==
    /\ MouseMulti /\ ~lastDone.visual
    /\ lastDone.selections = <<Range2(Pos(0, 0), Pos(1, 5))>>
    /\ lastCall.requests =
          <<[cmd |-> "nvim_input_mouse", button |-> "left", action |-> "press",
             modifier |-> "", grid |-> 3, row |-> 0, col |-> 0],
            [cmd |-> "nvim_input", keys |-> "v"],
            [cmd |-> "nvim_win_set_cursor", win |-> 2, pos |-> <<2, 5>>]>>

\* C10: an event of several selections or of one that is not collapsed makes
\* no call when its kind is not Mouse or the forwarding is disabled.
C10_NonForwardableDropped ==
    (lastDone.id /= 0 /\ ~CollapsedEvent
        /\ (lastDone.kind /= "Mouse" \/ ~mouseSelectionEnabled))
    => lastDone.requests = <<>> /\ lastCall = NoCall

\* a keyboard event of a selection that is not collapsed returned without a
\* call although the forwarding is enabled, the editor has a window and a
\* grid and the engine is in normal mode
C10_Witness ==
    /\ Returned /\ lastDone.win /= NoWin /\ lastDone.grid /= NoGrid
    /\ ~CollapsedEvent /\ lastDone.kind = "Keyboard"
    /\ mouseSelectionEnabled /\ mode = "normal"
    /\ lastDone.requests = <<>>

(***************************************************************************)
(* Properties of the application of a position (SpecRender).               *)
(***************************************************************************)
Applying == lastApply.editor /= NoEditor

C12_HalfViewportRule ==
    Applying =>
        LET v == lastApply.visible
            t == lastApply.line
            c == lastApply.col
            start == v.start.line
            end == v.end.line
            h == end - start
            inside ==
                /\ t > start \/ (t = start /\ c >= v.start.character)
                /\ t < end \/ (t = end /\ c <= v.end.character)
        IN /\ inside => lastApply.reveal = "Default"
           /\ t < start =>
                lastApply.reveal = IF 2 * (start - t) >= h THEN "Default" ELSE "AtTop"
           /\ t > end =>
                lastApply.reveal = IF 2 * (t - end) >= h THEN "InCenter" ELSE "Default"
           /\ (start = 10 /\ end = 30 /\ t = 0) => lastApply.reveal = "Default"
           /\ (start = 10 /\ end = 30 /\ t = 1) => lastApply.reveal = "AtTop"

\* the example of the claim at the boundary: the range [10, 30] and line 0,
\* at the distance of half the height
C12_Witness ==
    /\ Applying
    /\ lastApply.visible.start.line = 10 /\ lastApply.visible.end.line = 30
    /\ lastApply.line = 0
    /\ lastReveal[lastApply.editor] = "Default"

\* C13: after the application of (line, col) the editor has exactly one
\* selection, collapsed at (line, col), whatever it had before.
C13_SingleCollapsedSelection ==
    Applying =>
        selections[lastApply.editor] =
            <<[anchor |-> [line |-> lastApply.line, character |-> lastApply.col],
               active |-> [line |-> lastApply.line, character |-> lastApply.col]]>>

\* the editor had three cursors, it has one selection now
C13_Witness ==
    /\ Applying
    /\ Len(lastApply.prior) = 3
    /\ Len(selections[lastApply.editor]) = 1

\* C18: every application asks for exactly one reveal, whatever the visible
\* range and the position, the first and the last visible line with a column
\* outside the range included.  The statement of the claim: it does not hold
\* of the code.
C18_AsStated ==
    Applying => lastApply.reveal \in {"Default", "AtTop", "InCenter"}

(***************************************************************************)
(* Properties of the disposal (SpecDispose).                               *)
(***************************************************************************)
\* C14: once the manager is disposed of, the map of the cursor modes holds
\* no entry.  The statement of the claim: it does not hold of the code.
C14_AsStated ==
    ~subscribed => \A m \in ModeNames : cursorModes[m] = NoShape

(***************************************************************************)
(* Properties of the selection handler under later changes of the          *)
(* selection (SpecSel).                                                    *)
(***************************************************************************)
\* C16: the set-cursor request sent for a notification of one collapsed
\* selection carries the translated active position of the selection of that
\* notification, also when the selection of the editor has changed again
\* while the invocation was suspended.  The statement of the claim: it does
\* not hold of the code.
C16_AsStated ==
    (Returned /\ lastDone.win /= NoWin /\ CollapsedEvent) =>
        /\ lastDone.requests /= <<>>
        /\ lastDone.requests[1] =
              SetCursor(lastDone.win,
                        Translated(lastDone.editor, lastDone.selections[1].active))

(***************************************************************************)
(* Properties of the order of the atomic calls (SpecOrder).                *)
(***************************************************************************)
\* C15: nothing serialises the invocations in flight: an invocation whose
\* layout wait has settled can resume, and one whose lock wait has settled
\* can make its call, whatever older invocations are still suspended; so the
\* calls of two notifications can be made in the reverse of the order of the
\* notifications.
C15_CallsNotSerialized ==
    \A h \in handlers :
        /\ (h.pc = "layout" /\ LayoutSynced) => ENABLED OrderLayoutDone(h)
        /\ (h.pc = "lock" /\ LockFree(DocOf(h.editor))) => ENABLED OrderCompose(h)

\* notification 1 on e1, whose document has a change pending, then
\* notification 2 on e2: the call of 2 was made before the call of 1
C15_Witness ==
    /\ Len(callOrder) = 2
    /\ callOrder[1].id = 2 /\ callOrder[1].editor = "e2"
    /\ callOrder[2].id = 1 /\ callOrder[2].editor = "e1"
    /\ lastCall.id = 1

\* the notifications that have made a call
Called == {callOrder[k].id : k \in DOMAIN callOrder}

\* C17: a notification makes at most one atomic call; the call is made after
\* the invocation has resumed from a settled layout synchronisation and then
\* from the free lock of its document; the window of the requests is the one
\* the editor has after both waits, and an editor without a window then sends
\* nothing.
C17_CallAfterBothWaits ==
    /\ \A j, k \in DOMAIN callOrder : callOrder[j].id = callOrder[k].id => j = k
    /\ \A k \in DOMAIN callOrder : callOrder[k].passed /\ callOrder[k].free
    /\ \A p \in passedLayout : p.synced
    /\ \A h \in handlers :
          /\ h.id \notin Called
          /\ h.pc = "lock" <=> \E p \in passedLayout : p.id = h.id
    /\ lastCall.id /= 0 =>
          /\ lastCall.id = lastDone.id
          /\ lastCall.id = callOrder[Len(callOrder)].id
          /\ lastDone.win /= NoWin
          /\ \A k \in DOMAIN lastCall.requests :
                lastCall.requests[k].cmd = "nvim_win_set_cursor"
                    => lastCall.requests[k].win = lastDone.win
    /\ (lastDone.id /= 0 /\ lastDone.win = NoWin) =>
          lastCall = NoCall /\ lastDone.requests = <<>>

\* notification 1 made its call; notification 2 waited for the layout change
\* that took the window from its editor and for the lock, and sent nothing
C17_Witness ==
    /\ Called = {1}
    /\ lastDone.id = 2 /\ lastDone.win = NoWin
    /\ \E p \in passedLayout : p.id = 2 /\ p.synced
    /\ lastCall = NoCall

(***************************************************************************)
(* Properties of the deferred updates under rebinding (SpecRebind).        *)
(***************************************************************************)
ByTask == Applying /\ lastApply.win /= NoWin

\* C19: the editor a deferred update of window W is applied to is the editor
\* bound to W when it is applied, also when W was bound anew or lost its
\* editor while the task was suspended.  The statement of the claim: it does
\* not hold of the code.
C19_AsStated ==
    ByTask => lastApply.editor = lastApply.bound

\* what the code does (C19): the editor a deferred update of window W is
\* applied to is the editor that was bound to W when the batch was handled,
\* whatever W is bound to when the task resumes; that editor gets the staged
\* position.
C19_AppliedToGatedEditor ==
    ByTask =>
        /\ lastApply.editor = gatedBound[lastApply.task]
        /\ selections[lastApply.editor] =
              <<Collapsed(Pos(lastApply.line, lastApply.col))>>

\* window 2 was bound to e2 when the batch was handled and is bound to e3
\* when the task resumes: the position (1, 1) is written to e2
C19_Witness ==
    /\ ByTask /\ lastApply.win = 2
    /\ lastApply.editor = "e2" /\ lastApply.bound = "e3"
    /\ selections["e2"] = <<Collapsed(Pos(1, 1))>>

(***************************************************************************)
(* Properties of the notifications the applications raise (SpecEcho).      *)
(***************************************************************************)
\* C20: the notification the GUI raises for a selection an application has
\* set makes no atomic call: with batches only and no selection change by the
\* user, no request is ever sent.  The statement of the claim: it does not
\* hold of the code.
C20_AsStated ==
    /\ lastCall.id = 0
    /\ lastDone.id /= 0 => lastDone.requests = <<>>

====
